---- MODULE Spec2Model ----
(***************************************************************************)
(* OntologyCrawler: the property-path crawlers of ontology_crawler.py and  *)
(* bioportal_crawler.py, the owl:imports resolver retrieve_ontologies, the *)
(* entry points retrieve_crawl_paths and bioportal_retrieve_crawl_paths,   *)
(* and the row loop extract_from_contexts of context_extract.py, as state  *)
(* machines.  A recursive call is a frame on an explicit stack;            *)
(* the iteration order of a Python set or of a query result is a free      *)
(* choice among the elements that remain.                                  *)
(***************************************************************************)
EXTENDS Integers, Sequences, FiniteSets, TLC

\* ------------------------------------------------------------------ data
\* Nodes and triples <<subject, predicate, object>> of the fixture graphs.
Nodes == {"A", "B", "C", "D"}

\* Largest seed set handed to a crawl.
MaxSeeds == 2

Cycle3 == {<<"A", "p", "B">>, <<"B", "p", "C">>, <<"C", "p", "A">>}

Chain4 == {<<"A", "p", "B">>, <<"B", "p", "C">>, <<"C", "p", "D">>}

Diamond == {<<"A", "p", "B">>, <<"A", "r", "C">>, <<"B", "p", "D">>,
            <<"C", "p", "D">>, <<"D", "q", "A">>, <<"B", "q", "C">>}

Loops == {<<"A", "p", "A">>, <<"A", "p", "B">>, <<"B", "p", "A">>,
          <<"C", "q", "D">>, <<"D", "r", "B">>}

Parallel == {<<"A", "p", "B">>, <<"A", "r", "B">>, <<"B", "r", "C">>,
             <<"D", "p", "C">>, <<"C", "q", "A">>}

Graphs == {Cycle3, Chain4, Diamond, Loops, Parallel}

\* The predicate lists a caller passes as 'properties'; "q" is in none.
PredicateSets == {{"p"}, {"p", "r"}}

SeedSets == {S \in SUBSET Nodes : Cardinality(S) <= MaxSeeds}

NoNode == "none"

NoCall == [valid |-> FALSE, seeds |-> {}, order |-> <<>>, result |-> {}]

VARIABLES
    backend,          \* "local": extract_property_paths, "bioportal": extract_bioportal_property_paths
    graph,            \* the traversal graph / the triples behind the endpoint
    properties,       \* the predicate set
    seeds,            \* the seeds argument of the running call
    upstream, downstream, up_shallow, down_shallow,
    gout,             \* gout / bioportal_graph of the running call
    seen_downstream, seen_upstream,
    todo,             \* seeds the main loop has not reached yet
    seed,             \* the main loop's current seed
    order,            \* the seeds in the order the main loop took them
    pc,               \* "loop", "up", "mid", "down", "done"
    stack,            \* frames [entity, rows] of the recursive helper, top last
    qdown, qup,       \* expansion queries issued per node in the running call
    result,           \* the returned graph, once pc = "done"
    prev,             \* seeds and result of the call before the running one
    \* retrieve_ontologies
    web,              \* the documents behind the IRIs: triples and the formats each parses in
    in_graph,         \* the caller's input graph
    error, inplace,   \* the arguments error and inplace
    ont_gout,         \* gout, the closure built so far
    ont_seen,         \* seen, the IRIs already taken up
    ont_stack,        \* frames of _import_ontologies, top last
    attempts,         \* per IRI, the formats parse() was called with, in order
    merges,           \* per IRI, how often gout = gout + gin ran for it
    ont_pc,           \* "idle", "start", "run", "returned", "raised"
    ont_result,       \* the returned graph, once ont_pc = "returned"
    \* retrieve_crawl_paths / bioportal_retrieve_crawl_paths
    seed_query,       \* None, or Some(the names the query's regex matches)
    seeds_arg,        \* None, or Some(the seeds the caller passed)
    expand_ontologies, import_error, rcp_inplace,
    rcp_seeds,        \* seeds, once resolved
    ontology_graph,   \* the import closure handed to the crawl
    seed_queries,     \* seed queries issued
    rcp_pc,           \* "idle", "start", "expand", "ontologies", "extract", "crawl", "returned", "raised"
    rcp_exception,    \* the message of the exception raised, "" for none
    rcp_result,       \* the returned graph, once rcp_pc = "returned"
    \* extract_from_contexts
    table,            \* the rows [key, prefix, iri] of the properties file, in file order
    seed_iri, seed_graph,
    ctx_error,        \* the argument error
    ctx_idx,          \* the position of "for k in javaprops.keys()"
    ctx_form,         \* the position of "for form in FORMATS"
    context,          \* the context graph of the current row
    files,            \* per row, None or Some(the graph written to dest_dir + k + '.ttl')
    ctx_taken,        \* the rows whose loop body has begun
    ctx_attempts,     \* per row, the formats parse() was called with, in order
    ctx_crawled,      \* the rows retrieve_crawl_paths_from_context was called for
    ctx_pc,           \* "idle", "row", "load", "call", "crawl", "done", "raised"
    \* EnvironmentHandlerFactory
    handlers          \* the calls of createEnvironmentHander so far: argument type and outcome

vars == <<backend, graph, properties, seeds, upstream, downstream, up_shallow,
          down_shallow, gout, seen_downstream, seen_upstream, todo, seed, order, pc,
          stack, qdown, qup, result, prev, web, in_graph, error, inplace,
          ont_gout, ont_seen, ont_stack, attempts, merges, ont_pc, ont_result,
          seed_query, seeds_arg, expand_ontologies, import_error, rcp_inplace,
          rcp_seeds, ontology_graph, seed_queries, rcp_pc, rcp_exception, rcp_result,
          table, seed_iri, seed_graph, ctx_error, ctx_idx, ctx_form, context, files,
          ctx_taken, ctx_attempts, ctx_crawled, ctx_pc, handlers>>

\* The state of retrieve_ontologies, which no crawler step touches.
ovars == <<web, in_graph, error, inplace, ont_gout, ont_seen, ont_stack, attempts,
           merges, ont_pc, ont_result>>

\* The state of the crawlers, which no step of retrieve_ontologies touches.
cvars == <<backend, graph, properties, seeds, upstream, downstream, up_shallow,
           down_shallow, gout, seen_downstream, seen_upstream, todo, seed, order, pc,
           stack, qdown, qup, result, prev>>

\* The state of retrieve_crawl_paths, which no step of the functions it calls
\* touches.
rvars == <<seed_query, seeds_arg, expand_ontologies, import_error, rcp_inplace,
           rcp_seeds, ontology_graph, seed_queries, rcp_pc, rcp_exception, rcp_result>>

\* The state of extract_from_contexts, which no step of the functions it
\* calls touches.
xvars == <<table, seed_iri, seed_graph, ctx_error, ctx_idx, ctx_form, context, files,
           ctx_taken, ctx_attempts, ctx_crawled, ctx_pc>>

args == <<backend, graph, properties, upstream, downstream, up_shallow, down_shallow>>

Top == stack[Len(stack)]

Pop == SubSeq(stack, 1, Len(stack) - 1)

Frame(e, rs) == [entity |-> e, rows |-> rs]

ReplaceTop(rs) == [stack EXCEPT ![Len(stack)] = Frame(Top.entity, rs)]

\* A literal object, and the IRI spelled like its lexical form.
LiteralB == "'b'"

Terms == Nodes \cup {LiteralB, "b"}

ZeroQueries == [n \in Terms |-> 0]

\* ------------------------------------------------ queries against the graph
\* str(term), and result[...]['value'] of a JSON binding: the lexical form
\* of the term, which read as an IRI names the node spelled that way.
lexical(t) == IF t = LiteralB THEN "b" ELSE t

\* Variant: a filter that lets every predicate through.
property_filter_any(p) == TRUE

\* FILTER(?prop = <p1> || ?prop = <p2> ...)
property_filter_str(p) == p \in properties

\* SELECT ?prop ?downstream WHERE { <entity> ?prop ?downstream . FILTER }
query_downstream(entity) ==
    {<<t[2], t[3]>> : t \in {u \in graph : u[1] = entity /\ property_filter_str(u[2])}}

\* SELECT ?upstream ?prop WHERE { ?upstream ?prop <entity> . FILTER }
query_upstream(entity) ==
    {<<t[1], t[2]>> : t \in {u \in graph : u[3] = entity /\ property_filter_str(u[2])}}

\* ------------------------------------------- extract_property_paths (local)
\* shallow, when given, overrides both depth flags.
shallow_override(shallow, flag) == IF shallow # "None" THEN shallow = "True" ELSE flag

\* Variant: the seen test moved above gout.add, so that an edge into a node
\* already seen is dropped.
added_downstream_unseen(entity, r) ==
    IF r[2] \in seen_downstream THEN {} ELSE {<<entity, r[1], r[2]>>}

\* gout.add((entity, prop, downstream)) for a row <<prop, downstream>>
added_downstream(entity, r) == {<<entity, r[1], r[2]>>}

\* Variant: the upstream triple added subject and object swapped.
added_upstream_reversed(entity, r) == {<<entity, r[2], r[1]>>}

\* gout.add((upstream, prop, entity)) for a row <<upstream, prop>>
added_upstream(entity, r) == {<<r[1], r[2], entity>>}

\* Variant: the downstream helper reading the upstream depth flag.
skip_downstream_swapped(d) == up_shallow \/ d \in seen_downstream

\* Variant: the downstream helper ignoring its depth flag.
skip_downstream_deep(d) == d \in seen_downstream

\* Variant: the downstream helper without its seen test.
skip_downstream_unseen(d) == down_shallow

\* "if down_shallow or downstream in seen_downstream: continue"
skip_downstream(d) == down_shallow \/ d \in seen_downstream

\* Variant: the upstream helper reading the downstream depth flag.
skip_upstream_swapped(u) == down_shallow \/ u \in seen_upstream

\* "if up_shallow or upstream in seen_upstream: continue"
skip_upstream(u) == up_shallow \/ u \in seen_upstream

\* for seed in seeds: if upstream: __find_upstream(seed)
epp_next_seed ==
    /\ backend = "local" /\ pc = "loop" /\ todo # {}
    /\ \E s \in todo :
        /\ seed' = s
        /\ order' = Append(order, s)
        /\ todo' = todo \ {s}
        /\ IF upstream
             THEN /\ stack' = <<Frame(s, query_upstream(lexical(s)))>>
                  /\ qup' = [qup EXCEPT ![s] = @ + 1]
                  /\ pc' = "up"
             ELSE /\ pc' = "mid"
                  /\ UNCHANGED <<stack, qup>>
    /\ UNCHANGED <<handlers, xvars, ovars, rvars, args, seeds, gout, seen_downstream, seen_upstream, qdown, result, prev>>

\* one iteration of "for r in res" in __find_upstream
find_upstream_row ==
    /\ backend = "local" /\ pc = "up" /\ stack # <<>> /\ Top.rows # {}
    /\ \E r \in Top.rows :
        /\ gout' = gout \cup added_upstream(Top.entity, r)
        /\ IF skip_upstream(r[1])
             THEN /\ stack' = ReplaceTop(Top.rows \ {r})
                  /\ UNCHANGED <<seen_upstream, qup>>
             ELSE /\ seen_upstream' = seen_upstream \cup {r[1]}
                  /\ stack' = Append(ReplaceTop(Top.rows \ {r}),
                                     Frame(r[1], query_upstream(lexical(r[1]))))
                  /\ qup' = [qup EXCEPT ![r[1]] = @ + 1]
    /\ UNCHANGED <<handlers, xvars, ovars, rvars, args, seeds, order, seen_downstream, todo, seed, pc, qdown, result, prev>>

\* __find_upstream returns; back in the main loop: seen_upstream.add(seed)
find_upstream_return ==
    /\ backend = "local" /\ pc = "up" /\ stack # <<>> /\ Top.rows = {}
    /\ stack' = Pop
    /\ IF Len(stack) = 1
         THEN /\ seen_upstream' = seen_upstream \cup {seed}
              /\ pc' = "mid"
         ELSE UNCHANGED <<seen_upstream, pc>>
    /\ UNCHANGED <<handlers, xvars, ovars, rvars, args, seeds, order, gout, seen_downstream, todo, seed, qdown, qup, result, prev>>

\* if downstream: __find_downstream(seed)
epp_downstream ==
    /\ backend = "local" /\ pc = "mid"
    /\ IF downstream
         THEN /\ stack' = <<Frame(seed, query_downstream(lexical(seed)))>>
              /\ qdown' = [qdown EXCEPT ![seed] = @ + 1]
              /\ pc' = "down"
         ELSE /\ pc' = "loop"
              /\ UNCHANGED <<stack, qdown>>
    /\ UNCHANGED <<handlers, xvars, ovars, rvars, args, seeds, order, gout, seen_downstream, seen_upstream, todo, seed, qup, result, prev>>

\* one iteration of "for r in res" in __find_downstream
find_downstream_row ==
    /\ backend = "local" /\ pc = "down" /\ stack # <<>> /\ Top.rows # {}
    /\ \E r \in Top.rows :
        /\ gout' = gout \cup added_downstream(Top.entity, r)
        /\ IF skip_downstream(r[2])
             THEN /\ stack' = ReplaceTop(Top.rows \ {r})
                  /\ UNCHANGED <<seen_downstream, qdown>>
             ELSE /\ seen_downstream' = seen_downstream \cup {r[2]}
                  /\ stack' = Append(ReplaceTop(Top.rows \ {r}),
                                     Frame(r[2], query_downstream(lexical(r[2]))))
                  /\ qdown' = [qdown EXCEPT ![r[2]] = @ + 1]
    /\ UNCHANGED <<handlers, xvars, ovars, rvars, args, seeds, order, seen_upstream, todo, seed, pc, qup, result, prev>>

\* __find_downstream returns; back in the main loop: seen_downstream.add(seed)
find_downstream_return ==
    /\ backend = "local" /\ pc = "down" /\ stack # <<>> /\ Top.rows = {}
    /\ stack' = Pop
    /\ IF Len(stack) = 1
         THEN /\ seen_downstream' = seen_downstream \cup {seed}
              /\ pc' = "loop"
         ELSE UNCHANGED <<seen_downstream, pc>>
    /\ UNCHANGED <<handlers, xvars, ovars, rvars, args, seeds, order, gout, seen_upstream, todo, seed, qdown, qup, result, prev>>

\* return gout
epp_return ==
    /\ backend = "local" /\ pc = "loop" /\ todo = {}
    /\ pc' = "done"
    /\ result' = gout
    /\ UNCHANGED <<handlers, xvars, ovars, rvars, args, seeds, order, gout, seen_downstream, seen_upstream, todo, seed,
                   stack, qdown, qup, prev>>

\* --------------------------- extract_bioportal_property_paths (remote)
\* SELECT DISTINCT ?pred ?kn WHERE { <k> ?pred ?kn . FILTER }: bindings <<pred, kn>>
query_bioportal_downstream(k) ==
    {<<t[2], t[3]>> : t \in {u \in graph : u[1] = k /\ u[2] \in properties}}

\* SELECT DISTINCT ?pred ?kn WHERE { ?kn ?pred <k> . FILTER }: bindings <<pred, kn>>
query_bioportal_upstream(k) ==
    {<<t[2], t[1]>> : t \in {u \in graph : u[3] = k /\ u[2] \in properties}}

\* Variant: the downstream handler testing the upstream set.
already_seen_downstream_crossed(k) == k \in seen_upstream

\* "if k in seen_downstream: return"
already_seen_downstream(k) == k \in seen_downstream

\* "if k in seen_upstream: return"
already_seen_upstream(k) == k \in seen_upstream

\* _crawl_bioportal_downstream(k, i) entered with the frames 'base' below it:
\* the seen test, the query (which adds its bindings to bioportal_graph, each
\* as URIRef(result[...]['value'])) and the set of leaf nodes the frame is
\* left to iterate over.
crawl_bioportal_downstream(k, base) ==
    IF already_seen_downstream(k)
      THEN /\ stack' = Append(base, Frame(k, {}))
           /\ UNCHANGED <<seen_downstream, gout, qdown>>
      ELSE /\ seen_downstream' = seen_downstream \cup {k}
           /\ gout' = gout \cup {<<k, lexical(b[1]), lexical(b[2])>> :
                                     b \in query_bioportal_downstream(lexical(k))}
           /\ qdown' = [qdown EXCEPT ![k] = @ + 1]
           /\ stack' = Append(base, Frame(k, IF down_shallow THEN {}
                              ELSE {lexical(b[2]) : b \in query_bioportal_downstream(lexical(k))}))

crawl_bioportal_upstream(k, base) ==
    IF already_seen_upstream(k)
      THEN /\ stack' = Append(base, Frame(k, {}))
           /\ UNCHANGED <<seen_upstream, gout, qup>>
      ELSE /\ seen_upstream' = seen_upstream \cup {k}
           /\ gout' = gout \cup {<<lexical(b[2]), lexical(b[1]), k>> :
                                     b \in query_bioportal_upstream(lexical(k))}
           /\ qup' = [qup EXCEPT ![k] = @ + 1]
           /\ stack' = Append(base, Frame(k, IF up_shallow THEN {}
                              ELSE {lexical(b[2]) : b \in query_bioportal_upstream(lexical(k))}))

\* for k in seeds: if downstream: _crawl_bioportal_downstream(k, 0)
ebpp_next_seed ==
    /\ backend = "bioportal" /\ pc = "loop" /\ todo # {}
    /\ \E k \in todo :
        /\ seed' = k
        /\ order' = Append(order, k)
        /\ todo' = todo \ {k}
        /\ IF downstream
             THEN /\ crawl_bioportal_downstream(k, <<>>)
                  /\ pc' = "down"
             ELSE /\ pc' = "mid"
                  /\ UNCHANGED <<stack, seen_downstream, gout, qdown>>
    /\ UNCHANGED <<handlers, xvars, ovars, rvars, args, seeds, seen_upstream, qup, result, prev>>

\* "for k_n in parents: _crawl_bioportal_downstream(k_n, i+1)", one iteration
crawl_bioportal_downstream_child ==
    /\ backend = "bioportal" /\ pc = "down" /\ stack # <<>> /\ Top.rows # {}
    /\ \E k_n \in Top.rows :
        crawl_bioportal_downstream(k_n, ReplaceTop(Top.rows \ {k_n}))
    /\ UNCHANGED <<handlers, xvars, ovars, rvars, args, seeds, order, seen_upstream, todo, seed, pc, qup, result, prev>>

crawl_bioportal_downstream_return ==
    /\ backend = "bioportal" /\ pc = "down" /\ stack # <<>> /\ Top.rows = {}
    /\ stack' = Pop
    /\ pc' = IF Len(stack) = 1 THEN "mid" ELSE pc
    /\ UNCHANGED <<handlers, xvars, ovars, rvars, args, seeds, order, gout, seen_downstream, seen_upstream, todo, seed,
                   qdown, qup, result, prev>>

\* if upstream: _crawl_bioportal_upstream(k, 0)
ebpp_upstream ==
    /\ backend = "bioportal" /\ pc = "mid"
    /\ IF upstream
         THEN /\ crawl_bioportal_upstream(seed, <<>>)
              /\ pc' = "up"
         ELSE /\ pc' = "loop"
              /\ UNCHANGED <<stack, seen_upstream, gout, qup>>
    /\ UNCHANGED <<handlers, xvars, ovars, rvars, args, seeds, order, seen_downstream, todo, seed, qdown, result, prev>>

\* "for k_n in parents: _crawl_bioportal_upstream(k_n, i+1)", one iteration
crawl_bioportal_upstream_child ==
    /\ backend = "bioportal" /\ pc = "up" /\ stack # <<>> /\ Top.rows # {}
    /\ \E k_n \in Top.rows :
        crawl_bioportal_upstream(k_n, ReplaceTop(Top.rows \ {k_n}))
    /\ UNCHANGED <<handlers, xvars, ovars, rvars, args, seeds, order, seen_downstream, todo, seed, pc, qdown, result, prev>>

crawl_bioportal_upstream_return ==
    /\ backend = "bioportal" /\ pc = "up" /\ stack # <<>> /\ Top.rows = {}
    /\ stack' = Pop
    /\ pc' = IF Len(stack) = 1 THEN "loop" ELSE pc
    /\ UNCHANGED <<handlers, xvars, ovars, rvars, args, seeds, order, gout, seen_downstream, seen_upstream, todo, seed,
                   qdown, qup, result, prev>>

\* return bioportal_graph
ebpp_return ==
    /\ backend = "bioportal" /\ pc = "loop" /\ todo = {}
    /\ pc' = "done"
    /\ result' = gout
    /\ UNCHANGED <<handlers, xvars, ovars, rvars, args, seeds, order, gout, seen_downstream, seen_upstream, todo, seed,
                   stack, qdown, qup, prev>>

\* ------------------------------------------------- retrieve_ontologies
Docs == {"D1", "D2", "D3"}

\* FORMATS=['xml','n3','nt','trix','rdfa']
FORMATS == <<"xml", "n3", "nt", "trix", "rdfa">>

\* The formats a document may parse in: none, the first of the list, the
\* third only, the second and third, or one the list does not hold.
ParseOptions == {{}, {"xml"}, {"nt"}, {"n3", "nt"}, {"turtle"}}

\* A document that declares itself an ontology and imports 'imps'.
Ontology(d, imps) ==
    {<<d, "type", "Ontology">>, <<d, "p", "A">>} \cup {<<d, "imports", x>> : x \in imps}

ChainWeb == [input |-> Ontology("G", {"D1"}),
             docs |-> [d \in Docs |-> CASE d = "D1" -> Ontology("D1", {"D2"})
                                        [] d = "D2" -> Ontology("D2", {"D3"})
                                        [] d = "D3" -> Ontology("D3", {})]]

CycleWeb == [input |-> Ontology("G", {"D1"}),
             docs |-> [d \in Docs |-> CASE d = "D1" -> Ontology("D1", {"D2"})
                                        [] d = "D2" -> Ontology("D2", {"D3"})
                                        [] d = "D3" -> Ontology("D3", {"D1"})]]

TreeWeb == [input |-> Ontology("G", {"D1", "D2"}),
            docs |-> [d \in Docs |-> CASE d = "D1" -> Ontology("D1", {"D2", "D3"})
                                       [] d = "D2" -> Ontology("D2", {"D2"})
                                       [] d = "D3" -> Ontology("D3", {})]]

\* An imports statement whose subject is no ontology (G), an ontology that is
\* only an object of one (D1), and a second importing ontology (H).
OddWeb == [input |-> {<<"G", "imports", "D1">>, <<"D1", "type", "Ontology">>,
                      <<"H", "type", "Ontology">>, <<"H", "imports", "D3">>,
                      <<"G", "p", "B">>},
           docs |-> [d \in Docs |-> CASE d = "D1" -> Ontology("D1", {})
                                      [] d = "D2" -> Ontology("D2", {})
                                      [] d = "D3" -> Ontology("D3", {"D2"})]]

Webs == {ChainWeb, CycleWeb, TreeWeb, OddWeb}

OntTop == ont_stack[Len(ont_stack)]

OntPop == SubSeq(ont_stack, 1, Len(ont_stack) - 1)

OntFrame(rs) == [rows |-> rs, cur |-> NoNode, form |-> 1, read_success |-> FALSE]

OntSetTop(f) == [ont_stack EXCEPT ![Len(ont_stack)] = f]

\* Variant: the query asking that the imported IRI be the declared ontology.
imports_query_object_declared(g) ==
    {t[3] : t \in {u \in g : u[2] = "imports" /\ <<u[3], "type", "Ontology">> \in g}}

\* SELECT ?ont WHERE { [] a owl:Ontology ; owl:imports ?ont . }
imports_query(g) ==
    {t[3] : t \in {u \in g : u[2] = "imports" /\ <<u[1], "type", "Ontology">> \in g}}

\* Graph().parse(str(row[0]), format=form) returns rather than raises
parse_succeeds(iri, form) == form \in web.parses[iri]

\* Variant: a failed document raises under every error policy.
raise_always == TRUE

\* "if error is None: raise Exception(...)"
raise_on_failure == error = "None"

\* Variant: the sum built in the left operand, as "graph += gout" builds it.
left_after_iadd(g, h) == g \cup h

\* "graph + gout": the sum is a new graph and the left operand keeps its triples.
left_after_add(g, h) == g

\* Variant: the input graph returned along with the imports whatever inplace says.
returned_graph_with_input == in_graph \cup ont_gout

\* "if inplace: return graph + gout / else: return gout"
returned_graph == IF inplace THEN in_graph \cup ont_gout ELSE ont_gout

\* gout = Graph(); seen = set(); _import_ontologies(graph)
retrieve_ontologies_call ==
    /\ ont_pc = "start"
    /\ ont_stack' = <<OntFrame(imports_query(in_graph))>>
    /\ ont_pc' = "run"
    /\ ont_gout' = {}
    /\ ont_seen' = {}
    /\ attempts' = [d \in Docs |-> <<>>]
    /\ merges' = [d \in Docs |-> 0]
    /\ UNCHANGED <<handlers, xvars, cvars, rvars, web, in_graph, error, inplace, ont_result>>

\* Variant: the import loop without its seen test.
already_imported_never(row) == FALSE

\* "if row[0] in seen: continue"
already_imported(row) == row \in ont_seen

\* "for row in imports": the seen test of the next row
import_next_row ==
    /\ ont_pc = "run" /\ ont_stack # <<>>
    /\ OntTop.cur = NoNode /\ OntTop.rows # {}
    /\ \E row \in OntTop.rows :
        IF already_imported(row)
          THEN /\ ont_stack' = OntSetTop([OntTop EXCEPT !.rows = @ \ {row}])
               /\ UNCHANGED ont_seen
          ELSE /\ ont_seen' = ont_seen \cup {row}
               /\ ont_stack' = OntSetTop([rows |-> OntTop.rows \ {row}, cur |-> row,
                                          form |-> 1, read_success |-> FALSE])
    /\ UNCHANGED <<handlers, xvars, cvars, rvars, web, in_graph, error, inplace, ont_gout, attempts,
                   merges, ont_pc, ont_result>>

\* "for form in FORMATS: try: gin = Graph().parse(...)": one format.  On
\* success gout = gout + gin, read_success = True and _import_ontologies(gin)
\* is entered, inside the try.
import_try_format ==
    /\ ont_pc = "run" /\ ont_stack # <<>>
    /\ OntTop.cur # NoNode /\ OntTop.form <= Len(FORMATS)
    /\ attempts' = [attempts EXCEPT ![OntTop.cur] = Append(@, FORMATS[OntTop.form])]
    /\ IF parse_succeeds(OntTop.cur, FORMATS[OntTop.form])
         THEN /\ ont_gout' = ont_gout \cup web.docs[OntTop.cur]
              /\ merges' = [merges EXCEPT ![OntTop.cur] = @ + 1]
              /\ ont_stack' = Append(OntSetTop([OntTop EXCEPT !.read_success = TRUE]),
                                     OntFrame(imports_query(web.docs[OntTop.cur])))
         ELSE /\ ont_stack' = OntSetTop([OntTop EXCEPT !.form = @ + 1])
              /\ UNCHANGED <<ont_gout, merges>>
    /\ UNCHANGED <<handlers, xvars, cvars, rvars, web, in_graph, error, inplace, ont_seen, ont_pc, ont_result>>

\* The rows are used up and _import_ontologies returns: the caller's format
\* loop reaches its break, or retrieve_ontologies returns its graph.
import_return ==
    /\ ont_pc = "run" /\ ont_stack # <<>>
    /\ OntTop.cur = NoNode /\ OntTop.rows = {}
    /\ IF Len(ont_stack) > 1
         THEN /\ ont_stack' = [OntPop EXCEPT ![Len(ont_stack) - 1].cur = NoNode]
              /\ UNCHANGED <<ont_pc, ont_result, in_graph>>
         ELSE /\ ont_stack' = <<>>
              /\ ont_pc' = "returned"
              /\ ont_result' = returned_graph
              /\ in_graph' = IF inplace THEN left_after_add(in_graph, ont_gout) ELSE in_graph
    /\ UNCHANGED <<handlers, xvars, cvars, rvars, web, error, inplace, ont_gout, ont_seen, attempts, merges>>

\* The format loop ran out of formats: "if not read_success: ...".  A raised
\* exception leaves the frame; the frame below, whose call sits in a try,
\* catches it and goes on to its next format; with no frame below it reaches
\* the caller of retrieve_ontologies.
import_formats_exhausted ==
    /\ ont_pc = "run" /\ ont_stack # <<>>
    /\ OntTop.cur # NoNode /\ OntTop.form > Len(FORMATS)
    /\ IF ~OntTop.read_success /\ raise_on_failure
         THEN IF Len(ont_stack) > 1
                THEN /\ ont_stack' = [OntPop EXCEPT ![Len(ont_stack) - 1].form = @ + 1]
                     /\ UNCHANGED ont_pc
                ELSE /\ ont_stack' = <<>>
                     /\ ont_pc' = "raised"
         ELSE /\ ont_stack' = OntSetTop([OntTop EXCEPT !.cur = NoNode])
              /\ UNCHANGED ont_pc
    /\ UNCHANGED <<handlers, xvars, cvars, rvars, web, in_graph, error, inplace, ont_gout, ont_seen,
                   attempts, merges, ont_result>>

\* ------------------------------------------------------------ invocations
\* Variant: the result graph and the seen sets kept at module level, as the
\* earlier class_pipeline.py keeps them, and so carried from call to call.
stale_session(S) ==
    /\ seeds' = S
    /\ todo' = S
    /\ seed' = NoNode
    /\ order' = <<>>
    /\ stack' = <<>>
    /\ qdown' = ZeroQueries
    /\ qup' = ZeroQueries
    /\ result' = {}
    /\ pc' = "loop"
    /\ UNCHANGED <<gout, seen_downstream, seen_upstream>>

\* gout = Graph(); seen_downstream = set(); seen_upstream = set(): the
\* session state every call of either crawler builds for itself.
fresh_session(S) ==
    /\ seeds' = S
    /\ todo' = S
    /\ gout' = {}
    /\ seen_downstream' = {}
    /\ seen_upstream' = {}
    /\ seed' = NoNode
    /\ order' = <<>>
    /\ stack' = <<>>
    /\ qdown' = ZeroQueries
    /\ qup' = ZeroQueries
    /\ result' = {}
    /\ pc' = "loop"

\* No crawl is running.
CrawlIdle ==
    /\ backend = "local" /\ graph = {} /\ properties = {} /\ seeds = {}
    /\ upstream = FALSE /\ downstream = FALSE /\ up_shallow = FALSE /\ down_shallow = FALSE
    /\ todo = {} /\ gout = {} /\ seen_downstream = {} /\ seen_upstream = {}
    /\ seed = NoNode /\ order = <<>> /\ stack = <<>> /\ qdown = ZeroQueries /\ qup = ZeroQueries
    /\ result = {} /\ pc = "idle" /\ prev = NoCall

\* No import resolution is running.
OntIdle ==
    /\ web = [docs |-> [d \in Docs |-> {}], parses |-> [d \in Docs |-> {}]]
    /\ in_graph = {} /\ error = "None" /\ inplace = FALSE
    /\ ont_gout = {} /\ ont_seen = {} /\ ont_stack = <<>>
    /\ attempts = [d \in Docs |-> <<>>]
    /\ merges = [d \in Docs |-> 0]
    /\ ont_pc = "idle" /\ ont_result = {}

None == <<>>

Some(x) == <<x>>

\* No call of retrieve_crawl_paths is running.
RcpIdle ==
    /\ seed_query = None /\ seeds_arg = None
    /\ expand_ontologies = FALSE /\ import_error = "None" /\ rcp_inplace = FALSE
    /\ rcp_seeds = {} /\ ontology_graph = {} /\ seed_queries = 0
    /\ rcp_pc = "idle" /\ rcp_exception = "" /\ rcp_result = {}

\* The factory has not been called.
FactoryIdle == handlers = <<>>

\* No call of extract_from_contexts is running.
CtxIdle ==
    /\ table = <<>> /\ seed_iri = "" /\ seed_graph = {} /\ ctx_error = "None"
    /\ ctx_idx = 0 /\ ctx_form = 0 /\ context = {} /\ files = <<>>
    /\ ctx_taken = {} /\ ctx_attempts = <<>> /\ ctx_crawled = {} /\ ctx_pc = "idle"

\* The arguments of a call.  The local crawler takes 'shallow' as well.
Init ==
    /\ FactoryIdle
    /\ OntIdle
    /\ RcpIdle
    /\ CtxIdle
    /\ backend \in {"local", "bioportal"}
    /\ graph \in Graphs
    /\ properties \in PredicateSets
    /\ seeds \in SeedSets
    /\ upstream \in BOOLEAN
    /\ downstream \in BOOLEAN
    /\ \E shallow \in {"None", "True", "False"}, us \in BOOLEAN, ds \in BOOLEAN :
          /\ up_shallow = IF backend = "local" THEN shallow_override(shallow, us) ELSE us
          /\ down_shallow = IF backend = "local" THEN shallow_override(shallow, ds) ELSE ds
    /\ todo = seeds
    /\ gout = {}
    /\ seen_downstream = {}
    /\ seen_upstream = {}
    /\ seed = NoNode
    /\ order = <<>>
    /\ stack = <<>>
    /\ qdown = ZeroQueries
    /\ qup = ZeroQueries
    /\ result = {}
    /\ pc = "loop"
    /\ prev = NoCall

\* The caller calls the same crawler again on the unchanged graph, with the
\* same predicates and flags and any seeds.
invoke_again ==
    /\ pc = "done"
    /\ prev' = [valid |-> TRUE, seeds |-> seeds, order |-> order, result |-> result]
    /\ \E S \in SeedSets : fresh_session(S)
    /\ UNCHANGED <<handlers, xvars, ovars, rvars, args>>

Next ==
    \/ epp_next_seed
    \/ find_upstream_row
    \/ find_upstream_return
    \/ epp_downstream
    \/ find_downstream_row
    \/ find_downstream_return
    \/ epp_return
    \/ ebpp_next_seed
    \/ crawl_bioportal_downstream_child
    \/ crawl_bioportal_downstream_return
    \/ ebpp_upstream
    \/ crawl_bioportal_upstream_child
    \/ crawl_bioportal_upstream_return
    \/ ebpp_return

\* One call of either crawler.
Spec == Init /\ [][Next]_vars

\* Call after call on one graph with the full predicate list.
RepeatInit == Init /\ properties = {"p", "r"}

RepeatNext ==
    \/ epp_next_seed
    \/ find_upstream_row
    \/ find_upstream_return
    \/ epp_downstream
    \/ find_downstream_row
    \/ find_downstream_return
    \/ epp_return
    \/ ebpp_next_seed
    \/ crawl_bioportal_downstream_child
    \/ crawl_bioportal_downstream_return
    \/ ebpp_upstream
    \/ crawl_bioportal_upstream_child
    \/ crawl_bioportal_upstream_return
    \/ ebpp_return
    \/ invoke_again

RepeatSpec == RepeatInit /\ [][RepeatNext]_vars

\* retrieve_ontologies(graph, error, inplace) over a web of documents.
OntInit ==
    /\ FactoryIdle
    /\ CrawlIdle
    /\ RcpIdle
    /\ CtxIdle
    /\ \E w \in Webs, ps \in [Docs -> ParseOptions] :
          /\ web = [docs |-> w.docs, parses |-> ps]
          /\ in_graph = w.input
    /\ error \in {"None", "ignore", "strict"}
    /\ inplace \in BOOLEAN
    /\ ont_gout = {} /\ ont_seen = {} /\ ont_stack = <<>>
    /\ attempts = [d \in Docs |-> <<>>]
    /\ merges = [d \in Docs |-> 0]
    /\ ont_pc = "start" /\ ont_result = {}

OntNext ==
    \/ retrieve_ontologies_call
    \/ import_next_row
    \/ import_try_format
    \/ import_return
    \/ import_formats_exhausted

OntSpec == OntInit /\ [][OntNext]_vars

\* One call, run to its end by the interpreter.
FairSpec == Init /\ [][Next]_vars /\ WF_vars(Next)

\* ------------------------------------------------- one crawl, two backends
\* A path that ends in a literal.
LiteralLeaf == {<<"A", "p", "B">>, <<"B", "p", LiteralB>>, <<"C", "r", "B">>}

\* The caller runs the other crawler on the same triples with the same
\* seeds, predicates and flags.
invoke_other_backend ==
    /\ pc = "done" /\ prev = NoCall
    /\ prev' = [valid |-> TRUE, seeds |-> seeds, order |-> order, result |-> result]
    /\ backend' = IF backend = "local" THEN "bioportal" ELSE "local"
    /\ fresh_session(seeds)
    /\ UNCHANGED <<handlers, xvars, ovars, rvars, graph, properties, upstream, downstream,
                   up_shallow, down_shallow>>

PairInit ==
    /\ FactoryIdle
    /\ OntIdle
    /\ RcpIdle
    /\ CtxIdle
    /\ backend \in {"local", "bioportal"}
    /\ graph \in Graphs \cup {LiteralLeaf}
    /\ properties = {"p", "r"}
    /\ seeds \in SeedSets
    /\ upstream \in BOOLEAN
    /\ downstream \in BOOLEAN
    /\ up_shallow \in BOOLEAN
    /\ down_shallow \in BOOLEAN
    /\ todo = seeds
    /\ gout = {}
    /\ seen_downstream = {}
    /\ seen_upstream = {}
    /\ seed = NoNode
    /\ order = <<>>
    /\ stack = <<>>
    /\ qdown = ZeroQueries
    /\ qup = ZeroQueries
    /\ result = {}
    /\ pc = "loop"
    /\ prev = NoCall

PairNext ==
    \/ epp_next_seed
    \/ find_upstream_row
    \/ find_upstream_return
    \/ epp_downstream
    \/ find_downstream_row
    \/ find_downstream_return
    \/ epp_return
    \/ ebpp_next_seed
    \/ crawl_bioportal_downstream_child
    \/ crawl_bioportal_downstream_return
    \/ ebpp_upstream
    \/ crawl_bioportal_upstream_child
    \/ crawl_bioportal_upstream_return
    \/ ebpp_return
    \/ invoke_other_backend

\* One crawler, then the other, on the same arguments.
PairSpec == PairInit /\ [][PairNext]_vars

\* --------------------------------------------------- failing queries
\* Variant: the exception caught around the seed's expansion, and the main
\* loop going on to its next seed.
after_query_failure_caught == "loop"

\* Neither crawler has a try around graph.query / bioportal.query(): the
\* exception leaves every frame of the helper and the crawler itself.
after_query_failure == "raised"

\* graph.query(...) in __find_upstream raises: for the seed the main loop
\* has just taken, or for the node a row is about to recurse into.
find_upstream_query_fails ==
    /\ backend = "local"
    /\ \/ /\ pc = "loop" /\ upstream
          /\ \E s \in todo :
                /\ seed' = s
                /\ order' = Append(order, s)
                /\ todo' = todo \ {s}
                /\ qup' = [qup EXCEPT ![s] = @ + 1]
          /\ UNCHANGED <<gout, seen_upstream>>
       \/ /\ pc = "up" /\ stack # <<>>
          /\ \E r \in Top.rows :
                /\ ~skip_upstream(r[1])
                /\ gout' = gout \cup added_upstream(Top.entity, r)
                /\ seen_upstream' = seen_upstream \cup {r[1]}
                /\ qup' = [qup EXCEPT ![r[1]] = @ + 1]
          /\ UNCHANGED <<seed, order, todo>>
    /\ pc' = after_query_failure
    /\ stack' = <<>>
    /\ UNCHANGED <<handlers, xvars, ovars, rvars, args, seeds, seen_downstream, qdown, result, prev>>

\* graph.query(...) in __find_downstream raises.
find_downstream_query_fails ==
    /\ backend = "local"
    /\ \/ /\ pc = "mid" /\ downstream
          /\ qdown' = [qdown EXCEPT ![seed] = @ + 1]
          /\ UNCHANGED <<gout, seen_downstream>>
       \/ /\ pc = "down" /\ stack # <<>>
          /\ \E r \in Top.rows :
                /\ ~skip_downstream(r[2])
                /\ gout' = gout \cup added_downstream(Top.entity, r)
                /\ seen_downstream' = seen_downstream \cup {r[2]}
                /\ qdown' = [qdown EXCEPT ![r[2]] = @ + 1]
    /\ pc' = after_query_failure
    /\ stack' = <<>>
    /\ UNCHANGED <<handlers, xvars, ovars, rvars, args, seeds, seed, order, todo, seen_upstream, qup,
                   result, prev>>

\* bioportal.query().convert() in _query_bioportal_downstream raises, after
\* the node was added to seen_downstream.
bioportal_downstream_query_fails ==
    /\ backend = "bioportal"
    /\ \/ /\ pc = "loop" /\ downstream
          /\ \E k \in todo :
                /\ ~already_seen_downstream(k)
                /\ seed' = k
                /\ order' = Append(order, k)
                /\ todo' = todo \ {k}
                /\ seen_downstream' = seen_downstream \cup {k}
                /\ qdown' = [qdown EXCEPT ![k] = @ + 1]
       \/ /\ pc = "down" /\ stack # <<>>
          /\ \E k_n \in Top.rows :
                /\ ~already_seen_downstream(k_n)
                /\ seen_downstream' = seen_downstream \cup {k_n}
                /\ qdown' = [qdown EXCEPT ![k_n] = @ + 1]
          /\ UNCHANGED <<seed, order, todo>>
    /\ pc' = after_query_failure
    /\ stack' = <<>>
    /\ UNCHANGED <<handlers, xvars, ovars, rvars, args, seeds, gout, seen_upstream, qup, result, prev>>

\* bioportal.query().convert() in _query_bioportal_upstream raises.
bioportal_upstream_query_fails ==
    /\ backend = "bioportal"
    /\ \/ /\ pc = "mid" /\ upstream
          /\ ~already_seen_upstream(seed)
          /\ seen_upstream' = seen_upstream \cup {seed}
          /\ qup' = [qup EXCEPT ![seed] = @ + 1]
       \/ /\ pc = "up" /\ stack # <<>>
          /\ \E k_n \in Top.rows :
                /\ ~already_seen_upstream(k_n)
                /\ seen_upstream' = seen_upstream \cup {k_n}
                /\ qup' = [qup EXCEPT ![k_n] = @ + 1]
    /\ pc' = after_query_failure
    /\ stack' = <<>>
    /\ UNCHANGED <<handlers, xvars, ovars, rvars, args, seeds, seed, order, todo, gout, seen_downstream,
                   qdown, result, prev>>

FailNext ==
    \/ epp_next_seed
    \/ find_upstream_row
    \/ find_upstream_return
    \/ epp_downstream
    \/ find_downstream_row
    \/ find_downstream_return
    \/ epp_return
    \/ ebpp_next_seed
    \/ crawl_bioportal_downstream_child
    \/ crawl_bioportal_downstream_return
    \/ ebpp_upstream
    \/ crawl_bioportal_upstream_child
    \/ crawl_bioportal_upstream_return
    \/ ebpp_return
    \/ find_upstream_query_fails
    \/ find_downstream_query_fails
    \/ bioportal_downstream_query_fails
    \/ bioportal_upstream_query_fails

\* One call of either crawler against a backend whose queries may fail.
FailSpec == Init /\ [][FailNext]_vars

\* ------------------- retrieve_crawl_paths, bioportal_retrieve_crawl_paths
\* The caller's graph: classes A and C, an edge of its own, and an import.
HostImports == {<<"G", "type", "Ontology">>, <<"G", "imports", "D1">>,
                <<"A", "type", "Class">>, <<"C", "type", "Class">>,
                <<"A", "p", "B">>, <<"D", "q", "A">>}

\* A caller's graph that imports nothing.
HostPlain == {<<"B", "type", "Class">>, <<"A", "p", "B">>, <<"B", "r", "C">>}

Hosts == {HostImports, HostPlain}

\* The documents behind the imports: paths that continue the caller's edge.
HostDocs ==
    [d \in Docs |->
        CASE d = "D1" -> {<<"D1", "type", "Ontology">>, <<"D1", "imports", "D2">>,
                          <<"B", "p", "C">>, <<"C", "q", "D">>}
          [] d = "D2" -> {<<"D2", "type", "Ontology">>, <<"D", "type", "Class">>,
                          <<"C", "p", "D">>, <<"D", "r", "A">>}
          [] OTHER -> {}]

HostParses == {ps \in [Docs -> {{}, {"xml"}}] : ps["D3"] = {}}

\* The triples behind the remote endpoint.
Endpoint == Diamond \cup {<<"A", "type", "Class">>, <<"B", "type", "Class">>}

SeedArgs == {None, Some({}), Some({"A"}), Some({"A", "C"})}

SeedQueries == {None, Some({"A", "B"}), Some({"D"})}

\* extract_params: the defaults of retrieve_crawl_paths, those of
\* bioportal_retrieve_crawl_paths, those of the two __main__ blocks, and
\* one direction switched off.
ExtractParams ==
    {[upstream |-> TRUE, downstream |-> TRUE, up_shallow |-> TRUE, down_shallow |-> TRUE],
     [upstream |-> TRUE, downstream |-> TRUE, up_shallow |-> FALSE, down_shallow |-> FALSE],
     [upstream |-> TRUE, downstream |-> TRUE, up_shallow |-> TRUE, down_shallow |-> FALSE],
     [upstream |-> FALSE, downstream |-> TRUE, up_shallow |-> FALSE, down_shallow |-> FALSE]}

\* Variant: the seed query without its FILTER.
retrieve_all_classes(g, matches) ==
    {t[1] : t \in {u \in g : u[2] = "type" /\ u[3] = "Class"}}

\* {row[0] for row in graph.query(query)} for the query
\* "?c a owl:Class . FILTER(regex(str(?c), ...))"
retrieve_seed_classes(g, matches) ==
    {t[1] : t \in {u \in g : u[2] = "type" /\ u[3] = "Class" /\ u[1] \in matches}}

\* Variant: only the call that gives neither is refused.
seed_args_invalid_neither == seed_query = None /\ seeds_arg = None

\* "(seed_query is None and seeds is None) or (seed_query is not None and
\* seeds is not None)"
seed_args_invalid ==
    \/ seed_query = None /\ seeds_arg = None
    \/ seed_query # None /\ seeds_arg # None

\* The check of the arguments and the seed query, of either function.
resolve_seeds(g) ==
    IF seed_args_invalid
      THEN /\ rcp_pc' = "raised"
           /\ rcp_exception' = "mutually exclusive"
           /\ UNCHANGED <<rcp_seeds, seed_queries>>
      ELSE /\ rcp_pc' = "expand"
           /\ rcp_exception' = ""
           /\ IF seed_query # None /\ seeds_arg = None
                THEN /\ rcp_seeds' = retrieve_seed_classes(g, seed_query[1])
                     /\ seed_queries' = seed_queries + 1
                ELSE /\ rcp_seeds' = seeds_arg[1]
                     /\ UNCHANGED seed_queries

\* retrieve_crawl_paths: the arguments are checked and the seeds collected.
rcp_seeds_step ==
    /\ rcp_pc = "start" /\ backend = "local"
    /\ resolve_seeds(in_graph)
    /\ UNCHANGED <<handlers, xvars, cvars, ovars, seed_query, seeds_arg, expand_ontologies, import_error,
                   rcp_inplace, ontology_graph, rcp_result>>

\* "if expand_ontologies: ontology_graph = retrieve_ontologies(graph,
\* inplace=False, error=import_error) else: ontology_graph = Graph()"
rcp_expand ==
    /\ rcp_pc = "expand" /\ backend = "local"
    /\ IF expand_ontologies
         THEN /\ ont_pc' = "start"
              /\ inplace' = FALSE
              /\ error' = import_error
              /\ rcp_pc' = "ontologies"
         ELSE /\ rcp_pc' = "extract"
              /\ UNCHANGED <<ont_pc, inplace, error>>
    /\ ontology_graph' = {}
    /\ UNCHANGED <<handlers, xvars, cvars, web, in_graph, ont_gout, ont_seen, ont_stack, attempts, merges,
                   ont_result, seed_query, seeds_arg, expand_ontologies, import_error,
                   rcp_inplace, rcp_seeds, seed_queries, rcp_exception, rcp_result>>

\* retrieve_ontologies has returned its closure, or its exception passes
\* through retrieve_crawl_paths to the caller.
rcp_ontologies_return ==
    /\ rcp_pc = "ontologies"
    /\ ont_pc \in {"returned", "raised"}
    /\ IF ont_pc = "returned"
         THEN /\ ontology_graph' = ont_result
              /\ rcp_pc' = "extract"
              /\ UNCHANGED rcp_exception
         ELSE /\ rcp_pc' = "raised"
              /\ rcp_exception' = "exhausted format list"
              /\ UNCHANGED ontology_graph
    /\ UNCHANGED <<handlers, xvars, cvars, ovars, seed_query, seeds_arg, expand_ontologies, import_error,
                   rcp_inplace, rcp_seeds, seed_queries, rcp_result>>

\* Variant: the crawl reading the caller's graph alone.
traversal_graph_input_only == in_graph

\* "graph + ontology_graph": the graph handed to extract_property_paths.
traversal_graph == in_graph \cup ontology_graph

\* "entity_graph += extract_property_paths(seeds, graph + ontology_graph,
\* properties, **extract_params)": the call.
rcp_extract ==
    /\ rcp_pc = "extract"
    /\ graph' = traversal_graph
    /\ in_graph' = left_after_add(in_graph, ontology_graph)
    /\ fresh_session(rcp_seeds)
    /\ rcp_pc' = "crawl"
    /\ UNCHANGED <<handlers, xvars, backend, properties, upstream, downstream, up_shallow, down_shallow, prev,
                   web, error, inplace, ont_gout, ont_seen, ont_stack, attempts, merges,
                   ont_pc, ont_result, seed_query, seeds_arg, expand_ontologies,
                   import_error, rcp_inplace, rcp_seeds, ontology_graph, seed_queries,
                   rcp_exception, rcp_result>>

\* Variant: the import closure returned along with the crawled paths.
rcp_returned_graph_with_imports ==
    IF rcp_inplace THEN in_graph \cup ontology_graph \cup result
    ELSE ontology_graph \cup result

\* "if inplace: return graph + entity_graph else: return entity_graph"
rcp_returned_graph == IF rcp_inplace THEN in_graph \cup result ELSE result

\* The crawl has returned; "del ontology_graph" and the return.
rcp_return ==
    /\ rcp_pc = "crawl" /\ backend = "local" /\ pc = "done"
    /\ rcp_result' = rcp_returned_graph
    /\ in_graph' = IF rcp_inplace THEN left_after_add(in_graph, result) ELSE in_graph
    /\ rcp_pc' = "returned"
    /\ UNCHANGED <<handlers, xvars, cvars, web, error, inplace, ont_gout, ont_seen, ont_stack, attempts,
                   merges, ont_pc, ont_result, seed_query, seeds_arg, expand_ontologies,
                   import_error, rcp_inplace, rcp_seeds, ontology_graph, seed_queries,
                   rcp_exception>>

\* bioportal_retrieve_crawl_paths: the arguments are checked and the seed
\* query is sent to the endpoint.
brcp_seeds_step ==
    /\ rcp_pc = "start" /\ backend = "bioportal"
    /\ resolve_seeds(graph)
    /\ UNCHANGED <<handlers, xvars, cvars, ovars, seed_query, seeds_arg, expand_ontologies, import_error,
                   rcp_inplace, ontology_graph, rcp_result>>

\* "extract_bioportal_property_paths(seeds=seeds, bioportal=bioportal, ...)":
\* the call.
brcp_extract ==
    /\ rcp_pc = "expand" /\ backend = "bioportal"
    /\ fresh_session(rcp_seeds)
    /\ rcp_pc' = "crawl"
    /\ UNCHANGED <<handlers, xvars, ovars, args, prev, seed_query, seeds_arg, expand_ontologies,
                   import_error, rcp_inplace, rcp_seeds, ontology_graph, seed_queries,
                   rcp_exception, rcp_result>>

\* "return entity_graph + extract_bioportal_property_paths(...)"
brcp_return ==
    /\ rcp_pc = "crawl" /\ backend = "bioportal" /\ pc = "done"
    /\ rcp_result' = {} \cup result
    /\ rcp_pc' = "returned"
    /\ UNCHANGED <<handlers, xvars, cvars, ovars, seed_query, seeds_arg, expand_ontologies, import_error,
                   rcp_inplace, rcp_seeds, ontology_graph, seed_queries, rcp_exception>>

\* A call of retrieve_crawl_paths on a caller's graph, or of
\* bioportal_retrieve_crawl_paths on the endpoint.
PathInit ==
    /\ FactoryIdle
    /\ CtxIdle
    /\ backend \in {"local", "bioportal"}
    /\ properties = {"p", "r"}
    /\ \E ep \in ExtractParams :
          /\ upstream = ep.upstream /\ downstream = ep.downstream
          /\ up_shallow = ep.up_shallow /\ down_shallow = ep.down_shallow
    /\ seeds = {} /\ todo = {} /\ gout = {} /\ seen_downstream = {} /\ seen_upstream = {}
    /\ seed = NoNode /\ order = <<>> /\ stack = <<>>
    /\ qdown = ZeroQueries /\ qup = ZeroQueries
    /\ result = {} /\ pc = "idle" /\ prev = NoCall
    /\ IF backend = "local"
         THEN /\ graph = {}
              /\ in_graph \in Hosts
              /\ \E ps \in HostParses : web = [docs |-> HostDocs, parses |-> ps]
              /\ expand_ontologies \in BOOLEAN
              /\ import_error \in {"None", "ignore"}
              /\ rcp_inplace \in BOOLEAN
         ELSE /\ graph = Endpoint
              /\ in_graph = {}
              /\ web = [docs |-> [d \in Docs |-> {}], parses |-> [d \in Docs |-> {}]]
              /\ expand_ontologies = FALSE
              /\ import_error = "None"
              /\ rcp_inplace = FALSE
    /\ error = "None" /\ inplace = FALSE
    /\ ont_gout = {} /\ ont_seen = {} /\ ont_stack = <<>>
    /\ attempts = [d \in Docs |-> <<>>]
    /\ merges = [d \in Docs |-> 0]
    /\ ont_pc = "idle" /\ ont_result = {}
    /\ seed_query \in SeedQueries
    /\ seeds_arg \in SeedArgs
    /\ rcp_seeds = {} /\ ontology_graph = {} /\ seed_queries = 0
    /\ rcp_pc = "start" /\ rcp_exception = "" /\ rcp_result = {}

PathNext ==
    \/ rcp_seeds_step
    \/ rcp_expand
    \/ retrieve_ontologies_call
    \/ import_next_row
    \/ import_try_format
    \/ import_return
    \/ import_formats_exhausted
    \/ rcp_ontologies_return
    \/ rcp_extract
    \/ epp_next_seed
    \/ find_upstream_row
    \/ find_upstream_return
    \/ epp_downstream
    \/ find_downstream_row
    \/ find_downstream_return
    \/ epp_return
    \/ rcp_return
    \/ brcp_seeds_step
    \/ brcp_extract
    \/ ebpp_next_seed
    \/ crawl_bioportal_downstream_child
    \/ crawl_bioportal_downstream_return
    \/ ebpp_upstream
    \/ crawl_bioportal_upstream_child
    \/ crawl_bioportal_upstream_return
    \/ ebpp_return
    \/ brcp_return

PathSpec == PathInit /\ [][PathNext]_vars

\* A call of any of the three functions.
ApiInit == PathInit \/ OntInit

ApiSpec == ApiInit /\ [][PathNext]_vars

\* ------------------------------------------------- extract_from_contexts
\* FORMATS of extract_from_contexts.
CONTEXT_FORMATS == <<"xml", "n3", "nt", "trix", "turtle", "rdfa">>

\* guess_format(iri): the format the locator's suffix stands for.
guess_format(iri) == IF iri = "D1" THEN "trig" ELSE "xml"

Keys == <<"k1", "k2", "k3">>

\* The prefix column of the rows, and the class names each prefix occurs in.
Prefixes == <<"px", "py", "px">>

PrefixMatches(prefix) == IF prefix = "px" THEN {"A", "B"} ELSE {"C", "D"}

Locators == {"", "S", "D1", "D2"}

Tables ==
    {[i \in 1..Len(Keys) |-> [key |-> Keys[i], prefix |-> Prefixes[i], iri |-> f[i]]] :
        f \in [1..Len(Keys) -> Locators]}

SeedGraph == {<<"A", "type", "Class">>, <<"C", "type", "Class">>, <<"A", "p", "C">>}

ContextParses ==
    {ps \in [Docs -> {{}, {"xml"}, {"turtle"}, {"trig"}}] : ps["D3"] = {}}

\* Graph().parse(iri, format=form) returns.
context_parses(iri, form) == iri \in Docs /\ form \in web.parses[iri]

\* Variant: only the row without a locator is skipped.
skip_row_empty(iri) == iri = ""

\* "if iri == '': continue" and "if iri == seed_iri: continue"
skip_row(iri) == iri = "" \/ iri = seed_iri

\* for k in javaprops.keys(): the next row is taken up and skipped or
\* handed to the format loop; after the last row the function returns.
ctx_next_row ==
    /\ ctx_pc = "row"
    /\ IF ctx_idx > Len(table)
         THEN /\ ctx_pc' = "done"
              /\ UNCHANGED <<ctx_idx, ctx_form, context, ctx_taken>>
         ELSE /\ ctx_taken' = ctx_taken \cup {ctx_idx}
              /\ IF skip_row(table[ctx_idx].iri)
                   THEN /\ ctx_idx' = ctx_idx + 1
                        /\ UNCHANGED <<ctx_pc, ctx_form, context>>
                   ELSE /\ context' = {}
                        /\ ctx_form' = 1
                        /\ ctx_pc' = "load"
                        /\ UNCHANGED ctx_idx
    /\ UNCHANGED <<handlers, cvars, ovars, rvars, table, seed_iri, seed_graph, ctx_error, files,
                   ctx_attempts, ctx_crawled>>

\* for form in FORMATS: try: context = Graph().parse(iri, format=form);
\* read_success = True; break / except Exception: pass
ctx_try_format ==
    /\ ctx_pc = "load" /\ ctx_form <= Len(CONTEXT_FORMATS)
    /\ LET iri == table[ctx_idx].iri
           form == CONTEXT_FORMATS[ctx_form]
       IN  /\ ctx_attempts' = [ctx_attempts EXCEPT ![ctx_idx] = Append(@, form)]
           /\ IF context_parses(iri, form)
                THEN /\ context' = web.docs[iri]
                     /\ ctx_pc' = "call"
                     /\ UNCHANGED ctx_form
                ELSE /\ ctx_form' = ctx_form + 1
                     /\ UNCHANGED <<context, ctx_pc>>
    /\ UNCHANGED <<handlers, cvars, ovars, rvars, table, seed_iri, seed_graph, ctx_error, ctx_idx,
                   files, ctx_taken, ctx_crawled>>

\* "if not read_success:": the parse with the guessed format, whose break
\* leaves "for k in javaprops.keys()", the one loop around it; then the
\* raise under error None, the continue under 'ignore', and otherwise the
\* crawl of the empty context.
ctx_guess_format ==
    /\ ctx_pc = "load" /\ ctx_form > Len(CONTEXT_FORMATS)
    /\ LET iri == table[ctx_idx].iri
           form == guess_format(iri)
       IN  /\ ctx_attempts' = [ctx_attempts EXCEPT ![ctx_idx] = Append(@, form)]
           /\ IF context_parses(iri, form)
                THEN /\ context' = web.docs[iri]
                     /\ ctx_pc' = "done"
                     /\ UNCHANGED ctx_idx
                ELSE /\ UNCHANGED context
                     /\ IF ctx_error = "None"
                          THEN ctx_pc' = "raised" /\ UNCHANGED ctx_idx
                          ELSE IF ctx_error = "ignore"
                                 THEN ctx_pc' = "row" /\ ctx_idx' = ctx_idx + 1
                                 ELSE ctx_pc' = "call" /\ UNCHANGED ctx_idx
    /\ UNCHANGED <<handlers, cvars, ovars, rvars, table, seed_iri, seed_graph, ctx_error, ctx_form,
                   files, ctx_taken, ctx_crawled>>

\* Variant: the seed graph traversed along with the context.
context_with_seed_graph == context \cup seed_graph

\* "graph=context", the traversal graph retrieve_crawl_paths is given
context_as_graph == context

\* retrieve_crawl_paths_from_context(seed_graph, context, properties,
\* seed_query, expand_ontologies=True, import_error=error, inplace=False):
\* the seed query runs on the seed graph and retrieve_crawl_paths is called
\* with the context as its graph and the rows as its seeds.
ctx_crawl_call ==
    /\ ctx_pc = "call"
    /\ ctx_crawled' = ctx_crawled \cup {ctx_idx}
    /\ in_graph' = context_as_graph
    /\ seed_query' = None
    /\ seeds_arg' = Some(retrieve_seed_classes(seed_graph, PrefixMatches(table[ctx_idx].prefix)))
    /\ seed_queries' = 1
    /\ expand_ontologies' = TRUE
    /\ import_error' = ctx_error
    /\ rcp_inplace' = FALSE
    /\ rcp_seeds' = {}
    /\ ontology_graph' = {}
    /\ rcp_exception' = ""
    /\ rcp_result' = {}
    /\ rcp_pc' = "start"
    /\ ctx_pc' = "crawl"
    /\ UNCHANGED <<handlers, cvars, web, error, inplace, ont_gout, ont_seen, ont_stack, attempts,
                   merges, ont_pc, ont_result, table, seed_iri, seed_graph, ctx_error,
                   ctx_idx, ctx_form, context, files, ctx_taken, ctx_attempts>>

\* gout.serialize(dest_dir + k + '.ttl', format='turtle'), and on to the
\* next row.
ctx_write ==
    /\ ctx_pc = "crawl" /\ rcp_pc = "returned"
    /\ files' = [files EXCEPT ![ctx_idx] = Some(rcp_result)]
    /\ ctx_idx' = ctx_idx + 1
    /\ ctx_pc' = "row"
    /\ rcp_pc' = "idle"
    /\ UNCHANGED <<handlers, cvars, ovars, seed_query, seeds_arg, expand_ontologies, import_error,
                   rcp_inplace, rcp_seeds, ontology_graph, seed_queries, rcp_exception,
                   rcp_result, table, seed_iri, seed_graph, ctx_error, ctx_form, context,
                   ctx_taken, ctx_attempts, ctx_crawled>>

\* The exception of retrieve_crawl_paths passes through extract_from_contexts.
ctx_crawl_raised ==
    /\ ctx_pc = "crawl" /\ rcp_pc = "raised"
    /\ ctx_pc' = "raised"
    /\ rcp_pc' = "idle"
    /\ UNCHANGED <<handlers, cvars, ovars, seed_query, seeds_arg, expand_ontologies, import_error,
                   rcp_inplace, rcp_seeds, ontology_graph, seed_queries, rcp_exception,
                   rcp_result, table, seed_iri, seed_graph, ctx_error, ctx_idx, ctx_form,
                   context, files, ctx_taken, ctx_attempts, ctx_crawled>>

\* extract_from_contexts(seed_iri, properties, property_f, extract_params,
\* dest_dir, error) with the extract_params of its __main__ block.
CtxInit ==
    /\ FactoryIdle
    /\ backend = "local" /\ graph = {} /\ properties = {"p", "r"} /\ seeds = {}
    /\ upstream = TRUE /\ downstream = TRUE /\ up_shallow = TRUE /\ down_shallow = FALSE
    /\ todo = {} /\ gout = {} /\ seen_downstream = {} /\ seen_upstream = {}
    /\ seed = NoNode /\ order = <<>> /\ stack = <<>>
    /\ qdown = ZeroQueries /\ qup = ZeroQueries
    /\ result = {} /\ pc = "idle" /\ prev = NoCall
    /\ \E ps \in ContextParses : web = [docs |-> HostDocs, parses |-> ps]
    /\ in_graph = {} /\ error = "None" /\ inplace = FALSE
    /\ ont_gout = {} /\ ont_seen = {} /\ ont_stack = <<>>
    /\ attempts = [d \in Docs |-> <<>>]
    /\ merges = [d \in Docs |-> 0]
    /\ ont_pc = "idle" /\ ont_result = {}
    /\ RcpIdle
    /\ table \in Tables
    /\ seed_iri = "S"
    /\ seed_graph = SeedGraph
    /\ ctx_error \in {"None", "ignore", "strict"}
    /\ ctx_idx = 1 /\ ctx_form = 0 /\ context = {}
    /\ files = [i \in 1..Len(table) |-> None]
    /\ ctx_taken = {}
    /\ ctx_attempts = [i \in 1..Len(table) |-> <<>>]
    /\ ctx_crawled = {}
    /\ ctx_pc = "row"

CtxNext ==
    \/ ctx_next_row
    \/ ctx_try_format
    \/ ctx_guess_format
    \/ ctx_crawl_call
    \/ rcp_seeds_step
    \/ rcp_expand
    \/ retrieve_ontologies_call
    \/ import_next_row
    \/ import_try_format
    \/ import_return
    \/ import_formats_exhausted
    \/ rcp_ontologies_return
    \/ rcp_extract
    \/ epp_next_seed
    \/ find_upstream_row
    \/ find_upstream_return
    \/ epp_downstream
    \/ find_downstream_row
    \/ find_downstream_return
    \/ epp_return
    \/ rcp_return
    \/ ctx_write
    \/ ctx_crawl_raised

CtxSpec == CtxInit /\ [][CtxNext]_vars

\* Document loading, by a direct call of retrieve_ontologies or by
\* extract_from_contexts.
LoadInit == CtxInit \/ OntInit

LoadSpec == LoadInit /\ [][CtxNext]_vars

\* ---------------------------------------------- EnvironmentHandlerFactory
\* Most calls a caller makes of the factory.
MaxCalls == 3

\* type(environment) of the objects a caller may pass.
EnvironmentTypes == {"Graph", "SPARQLWrapper", "ConjunctiveGraph", "str", "NoneType"}

\* The names bound when the test of createEnvironmentHander is evaluated:
\* the module's imports and classes, and the method's locals.
BoundNames ==
    {"ABC", "abstractmethod", "uuid", "Graph", "SPARQLWrapper", "JSON",
     "EnvironmentHandlerFactory", "EnvironmentHandler", "RDFLibGraphEnvironmentHandler",
     "SPARQLWrapperEnvironmentHandler", "self", "environment", "TYPE_MAP"}

TYPE_MAP ==
    [t \in {"Graph", "SPARQLWrapper"} |->
        IF t = "Graph" THEN "RDFLibGraphEnvironmentHandler"
        ELSE "SPARQLWrapperEnvironmentHandler"]

\* "if not type(environment) in VALID_TYPES.keys(): raise Exception(...)
\* else: return TYPE_MAP[type(environment)](environment=environment)": the
\* name VALID_TYPES is looked up first, and a name that is not bound raises
\* NameError.
createEnvironmentHander(environment) ==
    IF "VALID_TYPES" \notin BoundNames THEN "NameError"
    ELSE IF environment \notin DOMAIN TYPE_MAP THEN "Exception: environment type is invalid"
    ELSE TYPE_MAP[environment]

factory_call ==
    /\ Len(handlers) < MaxCalls
    /\ \E environment \in EnvironmentTypes :
          handlers' = Append(handlers, [environment |-> environment,
                                        outcome |-> createEnvironmentHander(environment)])
    /\ UNCHANGED <<cvars, ovars, rvars, xvars>>

FactoryInit ==
    /\ CrawlIdle
    /\ OntIdle
    /\ RcpIdle
    /\ CtxIdle
    /\ FactoryIdle

FactoryNext == factory_call

\* Calls of EnvironmentHandlerFactory.createEnvironmentHander.
FactorySpec == FactoryInit /\ [][FactoryNext]_vars

\* ------------------------------------------------------- reference sets
\* Nodes reachable from S along edges of the predicate set, S included.
DownStep(S) == S \cup {t[3] : t \in {u \in graph : u[1] \in S /\ u[2] \in properties}}

RECURSIVE ReachDown(_)
ReachDown(S) == IF DownStep(S) = S THEN S ELSE ReachDown(DownStep(S))

\* Nodes from which S is reachable along edges of the predicate set, S included.
UpStep(S) == S \cup {t[1] : t \in {u \in graph : u[3] \in S /\ u[2] \in properties}}

RECURSIVE ReachUp(_)
ReachUp(S) == IF UpStep(S) = S THEN S ELSE ReachUp(UpStep(S))

\* Predicate-set triples leaving a node of S / entering a node of S.
EdgesFrom(S) == {t \in graph : t[1] \in S /\ t[2] \in properties}

EdgesInto(S) == {t \in graph : t[3] \in S /\ t[2] \in properties}

\* ---------------------------------------------------------------- claims
\* C1: every call of either crawler terminates, cycles included; on the
\* cycle A->B->C->A with seed A and deep downstream expansion the returned
\* graph is exactly the three cycle edges.
C1_Terminates ==
    /\ <>(pc = "done")
    /\ [](pc = "done" /\ graph = Cycle3 /\ seeds = {"A"} /\ downstream /\ ~down_shallow
            => result = Cycle3)

C1_Witness ==
    /\ pc = "done" /\ graph = Cycle3 /\ seeds = {"A"}
    /\ backend = "local" /\ downstream /\ ~down_shallow /\ ~upstream
    /\ result = Cycle3

\* C2: in extract_property_paths, a node that is in seen_downstream (resp.
\* seen_upstream) gets no further downstream (resp. upstream) expansion
\* query within the call.
C2_NoQueryOnceSeen ==
    [][(backend = "local" /\ pc # "done") =>
          \A n \in Nodes :
              /\ n \in seen_downstream => qdown'[n] = qdown[n]
              /\ n \in seen_upstream => qup'[n] = qup[n]]_vars

\* C3: in extract_property_paths every seed is in the VisitedSet of a
\* direction before the first expansion in that direction, and no seed is
\* expanded a second time in a direction.
C3_SeedsVisitedFirst ==
    backend = "local" =>
        /\ (\E n \in Nodes : qdown[n] > 0) => seeds \subseteq seen_downstream
        /\ (\E n \in Nodes : qup[n] > 0) => seeds \subseteq seen_upstream
        /\ \A s \in seeds : qdown[s] <= 1 /\ qup[s] <= 1

\* C4: two calls on the same graph, predicates and flags with the same seed
\* set return the same graph, in whatever order either call took its seeds
\* and its result rows.
C4_OrderIndependent ==
    (pc = "done" /\ prev.valid /\ prev.seeds = seeds) => result = prev.result

C4_Witness ==
    /\ pc = "done" /\ prev.valid /\ prev.seeds = seeds
    /\ prev.order # order
    /\ upstream /\ downstream /\ ~down_shallow
    /\ result # {} /\ result # EdgesFrom(seeds) \cup EdgesInto(seeds)

\* C5: every call starts from empty VisitedSets and an empty result graph; a
\* repeated call with the same seeds returns the same triples, and a call's
\* result holds only triples its own seeds lead to, whatever calls came before.
C5_SessionIsolated ==
    /\ (pc = "loop" /\ order = <<>>) =>
            gout = {} /\ seen_downstream = {} /\ seen_upstream = {}
    /\ (pc = "done" /\ prev.valid /\ prev.seeds = seeds) => result = prev.result
    /\ pc = "done" => result \subseteq EdgesFrom(ReachDown(seeds)) \cup EdgesInto(ReachUp(seeds))

C5_Witness ==
    /\ pc = "done" /\ prev.valid /\ prev.seeds # seeds
    /\ prev.result # {} /\ result # {}
    /\ prev.result \cap result = {}

\* C6: with down_shallow and upstream disabled the result of
\* extract_property_paths is exactly the predicate-set triples whose subject
\* is a seed.
C6_ShallowOneHop ==
    (backend = "local" /\ pc = "done" /\ downstream /\ down_shallow /\ ~upstream)
        => result = EdgesFrom(seeds)

C6_Witness ==
    /\ backend = "local" /\ pc = "done" /\ downstream /\ down_shallow /\ ~upstream
    /\ graph = Chain4 /\ seeds = {"A"}
    /\ result = {<<"A", "p", "B">>}

\* C7: with down_shallow off and upstream disabled the result of
\* extract_property_paths is exactly the predicate-set triples whose subject
\* is a seed or reachable from one.
C7_DeepClosure ==
    (backend = "local" /\ pc = "done" /\ downstream /\ ~down_shallow /\ ~upstream)
        => result = EdgesFrom(ReachDown(seeds))

C7_Witness ==
    /\ backend = "local" /\ pc = "done" /\ downstream /\ ~down_shallow /\ ~upstream
    /\ graph = Chain4 /\ seeds = {"A"}
    /\ result = Chain4

\* C8: with upstream enabled the result of extract_property_paths holds every
\* predicate-set triple (x, p, seed), so oriented, and with up_shallow off
\* every such triple whose object is backward-reachable from a seed.
C8_UpstreamEdges ==
    (backend = "local" /\ pc = "done" /\ upstream) =>
        /\ EdgesInto(seeds) \subseteq result
        /\ ~up_shallow => EdgesInto(ReachUp(seeds)) \subseteq result

C8_Witness ==
    /\ backend = "local" /\ pc = "done" /\ upstream /\ ~downstream
    /\ graph = Chain4 /\ seeds = {"B"}
    /\ result = {<<"A", "p", "B">>}

\* A document loads when it parses in a format of the list.
Loadable(d) == \E i \in 1..Len(FORMATS) : FORMATS[i] \in web.parses[d]

\* The IRIs imported by the input graph or by a loadable document already in S.
ImportStep(S) ==
    S \cup imports_query(in_graph)
      \cup UNION {imports_query(web.docs[d]) : d \in {x \in S : Loadable(x)}}

RECURSIVE ImportReach(_)
ImportReach(S) == IF ImportStep(S) = S THEN S ELSE ImportReach(ImportStep(S))

\* The transitive import closure of the input graph.
ImportClosure == ImportReach({})

\* C9: under error=None retrieve_ontologies does not return a graph when a
\* document of the transitive import closure, at whatever depth, fails
\* every format: it raises to its caller.
C9_FailFastRaises ==
    (error = "None" /\ ont_pc = "returned") => \A d \in ImportClosure : Loadable(d)

\* C10: under error='ignore' retrieve_ontologies never raises, and what it
\* has built when it returns is exactly the triples of the loadable documents
\* of the import closure: a document that fails every format adds nothing
\* and stops no other import from being taken up.
C10_IgnoreContinues ==
    error = "ignore" =>
        /\ ont_pc # "raised"
        /\ ont_pc = "returned" =>
              /\ ont_seen = ImportClosure
              /\ ont_gout = UNION {web.docs[d] : d \in {x \in ImportClosure : Loadable(x)}}

C10_Witness ==
    /\ error = "ignore" /\ ont_pc = "returned"
    /\ in_graph = TreeWeb.input /\ web.docs = TreeWeb.docs
    /\ Loadable("D1") /\ ~Loadable("D2") /\ Loadable("D3")
    /\ "D2" \in ont_seen
    /\ web.docs["D3"] \subseteq ont_gout
    /\ web.docs["D2"] \cap ont_gout = {}

\* The documents a parse() call has returned for.
Parsed == {d \in Docs : \E i \in 1..Len(attempts[d]) : attempts[d][i] \in web.parses[d]}

\* C11: within one call every document IRI goes through the format loop at
\* most once, loaded or not, and the triples of every document that loaded
\* are merged into the closure exactly once.
C11_MergedOnce ==
    \A d \in Docs :
        /\ Len(attempts[d]) <= Len(FORMATS)
        /\ \A i \in 1..Len(attempts[d]) : attempts[d][i] = FORMATS[i]
        /\ merges[d] <= 1
        /\ (ont_pc = "returned" /\ d \in Parsed) => merges[d] = 1

\* C12: every document is tried in the order xml, n3, nt, trix, rdfa, and
\* no format is tried for it after one has parsed, under every error policy
\* and at every depth.
C12_StopsAtFirstSuccess ==
    \A d \in Docs :
        /\ \A i \in 1..Len(attempts[d]) : attempts[d][i] = FORMATS[i]
        /\ \A i \in 1..(Len(attempts[d]) - 1) : attempts[d][i] \notin web.parses[d]

\* C13: no step of retrieve_ontologies or of retrieve_crawl_paths changes
\* the caller's input graph, whatever inplace is and whether the call
\* returns or raises.
C13_InputGraphKept == [][in_graph' = in_graph]_vars

C13_Witness ==
    /\ rcp_pc = "returned" /\ rcp_inplace
    /\ ont_pc = "returned" /\ ontology_graph # {}
    /\ ~(result \subseteq in_graph)
    /\ rcp_result # in_graph

\* C14: retrieve_ontologies returns, with inplace, exactly the input graph
\* united with the documents that parsed, and without it exactly the union
\* of the documents that parsed.
C14_InplaceUnion ==
    ont_pc = "returned" =>
        ont_result = (IF inplace THEN in_graph ELSE {}) \cup UNION {web.docs[d] : d \in Parsed}

C14_Witness ==
    /\ ont_pc = "returned" /\ ~inplace
    /\ Parsed # {} /\ Parsed # ImportClosure
    /\ in_graph \cap ont_result = {}

\* No seed query, no document load and no expansion query has happened.
NothingDone ==
    /\ seed_queries = 0
    /\ \A d \in Docs : attempts[d] = <<>>
    /\ \A n \in Nodes : qdown[n] = 0 /\ qup[n] = 0

\* C15: retrieve_crawl_paths and bioportal_retrieve_crawl_paths raise when
\* both of seeds and seed_query are given and when neither is, before any
\* seed query, document load or expansion query; with exactly one of them
\* given that exception is not raised.
C15_SeedArgsExclusive ==
    LET given == {x \in {"seeds", "seed_query"} :
                     \/ x = "seeds" /\ seeds_arg # None
                     \/ x = "seed_query" /\ seed_query # None}
    IN  rcp_pc \notin {"idle", "start"} =>
          IF Cardinality(given) = 1
            THEN rcp_exception # "mutually exclusive"
            ELSE /\ rcp_pc = "raised"
                 /\ rcp_exception = "mutually exclusive"
                 /\ NothingDone

C15_Witness ==
    /\ backend = "bioportal" /\ rcp_pc = "raised"
    /\ seeds_arg # None /\ seed_query # None

\* The arguments resolve to no seed: an empty seeds argument, or a seed
\* query no class of the input graph matches.
ZeroSeeds ==
    /\ backend = "local" /\ rcp_pc \notin {"idle", "start"}
    /\ \/ seeds_arg = Some({}) /\ seed_query = None
       \/ /\ seeds_arg = None /\ seed_query # None
          /\ \A n \in seed_query[1] : <<n, "type", "Class">> \notin in_graph

\* C16 as stated: with zero seeds and inplace=False, retrieve_crawl_paths
\* never raises, issues no expansion query and returns the empty graph, for
\* every graph and every flag.
C16_ZeroSeedsReturnEmpty ==
    (ZeroSeeds /\ ~rcp_inplace) =>
        /\ rcp_pc # "raised"
        /\ \A n \in Nodes : qdown[n] = 0 /\ qup[n] = 0
        /\ rcp_pc = "returned" => rcp_result = {}

\* C16, amended: with zero seeds and inplace=False, retrieve_crawl_paths
\* issues no expansion query and returns the empty graph, unless
\* retrieve_ontologies raises: expand_ontologies set, import_error None and
\* a document the input graph imports failing every format.
C16_ZeroSeedsEmptyUnlessImportRaises ==
    (ZeroSeeds /\ ~rcp_inplace) =>
        /\ \A n \in Nodes : qdown[n] = 0 /\ qup[n] = 0
        /\ rcp_pc = "returned" => rcp_result = {}
        /\ rcp_pc = "raised" =>
              /\ rcp_exception = "exhausted format list"
              /\ expand_ontologies /\ import_error = "None"
              /\ \E d \in imports_query(in_graph) : web.parses[d] = {}

C16_Witness ==
    /\ ZeroSeeds /\ ~rcp_inplace /\ seed_query # None
    /\ rcp_pc = "returned" /\ seed_queries = 1
    /\ ontology_graph # {}

\* The triples a crawl from the resolved seeds collects: the edges out of
\* the seeds, or out of everything below them, and the edges into the
\* seeds, or into everything above them.
Crawled ==
    (IF ~downstream THEN {}
     ELSE IF down_shallow THEN EdgesFrom(rcp_seeds) ELSE EdgesFrom(ReachDown(rcp_seeds)))
    \cup
    (IF ~upstream THEN {}
     ELSE IF up_shallow THEN EdgesInto(rcp_seeds) ELSE EdgesInto(ReachUp(rcp_seeds)))

\* C17: retrieve_crawl_paths returns exactly the crawled property-path
\* triples, united with the input graph when inplace is set; a triple of
\* the import closure that lies on no crawled path is not returned.
C17_OnlyCrawledPaths ==
    (backend = "local" /\ rcp_pc = "returned") =>
        /\ rcp_result = (IF rcp_inplace THEN in_graph ELSE {}) \cup Crawled
        /\ \A t \in ontology_graph \ Crawled : t \in rcp_result => rcp_inplace /\ t \in in_graph

C17_Witness ==
    /\ backend = "local" /\ rcp_pc = "returned" /\ ~rcp_inplace
    /\ rcp_result \cap ontology_graph # {}
    /\ ~(in_graph \subseteq rcp_result)
    /\ ~(ontology_graph \subseteq rcp_result)

\* The row's document parses in a format of the list / in none of the list
\* but in the guessed one / in neither.
ListLoadable(i) ==
    /\ table[i].iri \in Docs
    /\ \E n \in 1..Len(CONTEXT_FORMATS) : CONTEXT_FORMATS[n] \in web.parses[table[i].iri]

GuessOnly(i) ==
    /\ table[i].iri \in Docs
    /\ ~ListLoadable(i)
    /\ guess_format(table[i].iri) \in web.parses[table[i].iri]

Unloadable(i) == table[i].iri \in Docs /\ ~ListLoadable(i) /\ ~GuessOnly(i)

\* C18: a context that fails every format of the list but parses in the
\* guessed format is crawled and its result written, and every later row is
\* still taken up.
C18_GuessedContextCrawled ==
    ctx_pc = "done" =>
        \A i \in ctx_taken :
            GuessOnly(i) =>
                /\ i \in ctx_crawled
                /\ files[i] # None
                /\ \A j \in (i + 1)..Len(table) : j \in ctx_taken

\* C19: under 'ignore' a context that no format and no guess loads leaves
\* no output and does not end the loop: every later row is taken up, and
\* every later row whose document loads is crawled and written.
C19_IgnoredFailureContinues ==
    ctx_error = "ignore" =>
        \A i \in ctx_taken :
            Unloadable(i) =>
                /\ files[i] = None
                /\ i \notin ctx_crawled
                /\ ctx_pc = "done" =>
                      \A j \in (i + 1)..Len(table) :
                          /\ j \in ctx_taken
                          /\ (ListLoadable(j) \/ GuessOnly(j)) =>
                                j \in ctx_crawled /\ files[j] # None

\* C20: a row whose locator is empty or is the seed graph's own locator is
\* skipped: nothing is loaded, crawled or written for it, and the step that
\* takes it up goes on to the next row.
C20_SkippedRows ==
    /\ [](\A i \in ctx_taken :
             table[i].iri \in {"", seed_iri} =>
                 /\ ctx_attempts[i] = <<>>
                 /\ i \notin ctx_crawled
                 /\ files[i] = None)
    /\ [][\A i \in ctx_taken' \ ctx_taken :
             table[i].iri \in {"", seed_iri} =>
                 /\ ctx_pc' = "row"
                 /\ ctx_idx' = i + 1
                 /\ UNCHANGED <<files, ctx_attempts, ctx_crawled, context>>]_vars

C20_Witness ==
    /\ ctx_pc = "done"
    /\ table[1].iri = "" /\ table[2].iri = seed_iri
    /\ ctx_taken = {1, 2, 3}
    /\ files[3] # None

\* The documents reachable from the documents S through imports statements.
DocStep(S) ==
    S \cup {t[3] : t \in {u \in UNION {web.docs[d] : d \in S} : u[2] = "imports" /\ u[3] \in Docs}}

RECURSIVE DocReach(_)
DocReach(S) == IF DocStep(S) = S THEN S ELSE DocReach(DocStep(S))

\* The triples of the context document of row i and of its import closure.
ContextClosure(i) ==
    IF table[i].iri \in Docs THEN UNION {web.docs[d] : d \in DocReach({table[i].iri})} ELSE {}

\* C21: the seed query of a context crawl is evaluated on seed_graph alone
\* and the crawl traverses the context and its import closure alone: every
\* triple written is one of theirs, and no triple that only seed_graph
\* holds is written.
C21_ContextOnly ==
    /\ (ctx_pc = "crawl" /\ rcp_pc \notin {"idle", "start"}) =>
          /\ seed_queries = 1
          /\ rcp_seeds = {n \in PrefixMatches(table[ctx_idx].prefix) :
                             <<n, "type", "Class">> \in seed_graph}
    /\ \A i \in 1..Len(table) :
          files[i] # None =>
              /\ files[i][1] \subseteq ContextClosure(i)
              /\ files[i][1] \cap (seed_graph \ ContextClosure(i)) = {}

C21_Witness ==
    \E i \in 1..Len(table) :
        /\ files[i] # None
        /\ table[i].iri = "D1"
        /\ <<"B", "p", "C">> \in files[i][1]
        /\ <<"C", "p", "D">> \in files[i][1]
        /\ seed_graph \ ContextClosure(i) # {}

\* The triples a complete crawl from the seeds returns.
CrawlRef ==
    (IF ~downstream THEN {}
     ELSE IF down_shallow THEN EdgesFrom(seeds) ELSE EdgesFrom(ReachDown(seeds)))
    \cup
    (IF ~upstream THEN {}
     ELSE IF up_shallow THEN EdgesInto(seeds) ELSE EdgesInto(ReachUp(seeds)))

\* C22: a failing expansion query, at a seed or at any depth and in either
\* direction, ends the call of either crawler with the exception: no graph
\* is returned afterwards, and a graph that is returned is never a partial
\* result.
C22_QueryFailurePropagates ==
    /\ [](pc = "raised" => result = {} /\ stack = <<>>)
    /\ [](pc = "done" => result = CrawlRef)
    /\ [][pc = "raised" => pc' = "raised" /\ result' = result]_vars

C22_Witness ==
    /\ pc = "raised"
    /\ gout # {} /\ gout # CrawlRef
    /\ seen_downstream # {}
    /\ todo # {}

\* C23: on the same triples, seeds, predicates and explicit flags the
\* remote crawler returns the graph the local crawler returns.
C23_BackendsAgree == (pc = "done" /\ prev.valid) => result = prev.result

\* The load of row i's context has been decided / a parse call returned.
ContextDecided(i) ==
    \/ \E n \in 1..Len(ctx_attempts[i]) : ctx_attempts[i][n] \in web.parses[table[i].iri]
    \/ Len(ctx_attempts[i]) = Len(CONTEXT_FORMATS) + 1

ContextLoaded(i) ==
    \E n \in 1..Len(ctx_attempts[i]) : ctx_attempts[i][n] \in web.parses[table[i].iri]

\* The same for document d as an import of the running retrieve_ontologies.
ImportDecided(d) ==
    \/ \E n \in 1..Len(attempts[d]) : attempts[d][n] \in web.parses[d]
    \/ Len(attempts[d]) = Len(FORMATS)

ImportLoaded(d) == \E n \in 1..Len(attempts[d]) : attempts[d][n] \in web.parses[d]

\* C24: a document loads as a context of extract_from_contexts if and only
\* if it loads as an import of retrieve_ontologies.
C24_SameFallbackPolicy ==
    \A i \in 1..Len(table) :
        (table[i].iri \in Docs /\ ContextDecided(i) /\ ImportDecided(table[i].iri)) =>
            (ContextLoaded(i) <=> ImportLoaded(table[i].iri))

\* C25: the factory returns an RDFLibGraphEnvironmentHandler for a Graph, a
\* SPARQLWrapperEnvironmentHandler for a SPARQLWrapper, and raises the
\* 'environment type is invalid' exception for every other type.
C25_FactoryDispatch ==
    \A n \in 1..Len(handlers) :
        handlers[n].outcome =
            (IF handlers[n].environment = "Graph" THEN "RDFLibGraphEnvironmentHandler"
             ELSE IF handlers[n].environment = "SPARQLWrapper"
                    THEN "SPARQLWrapperEnvironmentHandler"
             ELSE "Exception: environment type is invalid")

\* C26: at every point of a crawl of either crawler every triple of the
\* result graph is a triple of the traversal graph, has a predicate of the
\* predicate set, and leaves a node reached downstream from a seed or
\* enters a node reached upstream from a seed.
C26_OnlyAllowedEdges ==
    \A t \in gout \cup result :
        /\ t \in graph
        /\ t[2] \in properties
        /\ \/ downstream /\ t[1] \in ReachDown(seeds)
           \/ upstream /\ t[3] \in ReachUp(seeds)

\* C27: in extract_property_paths each depth flag governs its own direction
\* only: crawling both ways with up_shallow set and down_shallow clear
\* returns the full downstream closure of the seeds plus the edges one hop
\* upstream of them, and with the flags swapped the edges one hop
\* downstream plus the full upstream closure.
C27_DepthFlagsIndependent ==
    (backend = "local" /\ pc = "done" /\ downstream /\ upstream) =>
        /\ (up_shallow /\ ~down_shallow) =>
               result = EdgesFrom(ReachDown(seeds)) \cup EdgesInto(seeds)
        /\ (down_shallow /\ ~up_shallow) =>
               result = EdgesFrom(seeds) \cup EdgesInto(ReachUp(seeds))

\* A finished two-way crawl with up_shallow set and down_shallow clear
\* whose seeds have incoming edges and whose downstream closure goes
\* beyond one hop.
C27_Witness ==
    /\ backend = "local" /\ pc = "done" /\ downstream /\ upstream
    /\ up_shallow /\ ~down_shallow
    /\ EdgesFrom(ReachDown(seeds)) \ (EdgesFrom(seeds) \cup EdgesInto(seeds)) # {}
    /\ EdgesInto(seeds) # {}
    /\ result # EdgesFrom(seeds) \cup EdgesInto(seeds)

\* Reachability and crawl results over an explicit graph G.
DownStepIn(G, S) == S \cup {t[3] : t \in {u \in G : u[1] \in S /\ u[2] \in properties}}

RECURSIVE ReachDownIn(_, _)
ReachDownIn(G, S) ==
    IF DownStepIn(G, S) = S THEN S ELSE ReachDownIn(G, DownStepIn(G, S))

UpStepIn(G, S) == S \cup {t[1] : t \in {u \in G : u[3] \in S /\ u[2] \in properties}}

RECURSIVE ReachUpIn(_, _)
ReachUpIn(G, S) == IF UpStepIn(G, S) = S THEN S ELSE ReachUpIn(G, UpStepIn(G, S))

CrawlOver(G, S) ==
    (IF ~downstream THEN {}
     ELSE {t \in G : /\ t[2] \in properties
                     /\ t[1] \in (IF down_shallow THEN S ELSE ReachDownIn(G, S))})
    \cup
    (IF ~upstream THEN {}
     ELSE {t \in G : /\ t[2] \in properties
                     /\ t[3] \in (IF up_shallow THEN S ELSE ReachUpIn(G, S))})

\* The triples of the documents of the import closure that load.
ClosureDocs == UNION {web.docs[d] : d \in {x \in ImportClosure : Loadable(x)}}

\* C28: with expand_ontologies set retrieve_crawl_paths crawls the union of
\* the input graph and its import closure, so a predicate-set edge found
\* only in an imported document and reachable from a seed is returned;
\* with expand_ontologies clear no document is loaded and the crawl reads
\* the input graph alone.
C28_ExpandSelectsTraversalGraph ==
    (backend = "local" /\ rcp_pc = "returned") =>
        IF expand_ontologies
          THEN result = CrawlOver(in_graph \cup ClosureDocs, rcp_seeds)
          ELSE /\ \A d \in Docs : attempts[d] = <<>>
               /\ ont_pc = "idle" /\ ontology_graph = {}
               /\ result = CrawlOver(in_graph, rcp_seeds)

\* A returned call with expand_ontologies set whose result holds an edge of
\* an imported document that the input graph lacks.
C28_Witness ==
    /\ backend = "local" /\ rcp_pc = "returned" /\ expand_ontologies
    /\ <<"B", "p", "C">> \in result \ in_graph
    /\ <<"B", "p", "C">> \in web.docs["D1"]

\* The nodes the remote crawler has sent a downstream / an upstream query for.
QueriedDown == {n \in Terms : qdown[n] > 0}

QueriedUp == {n \in Terms : qup[n] > 0}

\* C29: during an invocation of extract_bioportal_property_paths the sets
\* seen_downstream and seen_upstream only grow, no node is sent more than
\* one query per direction, and the nodes queried in a direction are no
\* more than the seeds and the nodes reachable from them in that direction.
C29_RemoteQueriesBounded ==
    /\ [](backend = "bioportal" =>
            /\ \A n \in Terms : qdown[n] <= 1 /\ qup[n] <= 1
            /\ QueriedDown = seen_downstream /\ QueriedUp = seen_upstream
            /\ Cardinality(QueriedDown) <= Cardinality(ReachDown(seeds))
            /\ Cardinality(QueriedUp) <= Cardinality(ReachUp(seeds)))
    /\ [][(backend = "bioportal" /\ pc # "done") =>
            /\ seen_downstream \subseteq seen_downstream'
            /\ seen_upstream \subseteq seen_upstream']_vars

\* A finished deep remote crawl in both directions over a graph with a
\* cycle through a seed: at least three nodes were queried downstream, and
\* the seed was met again as a child.
C29_Witness ==
    /\ backend = "bioportal" /\ pc = "done"
    /\ downstream /\ ~down_shallow /\ upstream /\ ~up_shallow
    /\ Cardinality(QueriedDown) >= 3 /\ Cardinality(QueriedUp) >= 3
    /\ \E t \in graph : /\ t[2] \in properties /\ t[3] \in seeds
                        /\ t[1] \in ReachDown(seeds) \ seeds

\* a is a start of the list f.
IsPrefix(a, f) == Len(a) <= Len(f) /\ \A i \in 1..Len(a) : a[i] = f[i]

\* C30: within one retrieve_ontologies call every document IRI is tried at
\* most once per format of the five-entry list, in list order, and in
\* extract_from_contexts every context is tried at most once per format of
\* its list and then at most once with the guessed format.
C30_NoRetryBeyondFormatList ==
    /\ \A d \in Docs : IsPrefix(attempts[d], FORMATS)
    /\ \A i \in 1..Len(ctx_attempts) :
          LET a == ctx_attempts[i]
              n == Len(CONTEXT_FORMATS)
          IN  /\ Len(a) <= n + 1
              /\ IsPrefix(SubSeq(a, 1, IF Len(a) <= n THEN Len(a) ELSE n), CONTEXT_FORMATS)
              /\ Len(a) = n + 1 => a[n + 1] = guess_format(table[i].iri)

\* A context that went through its whole list and the guessed format, after
\* an import of an earlier context was tried in all five formats.
C30_Witness ==
    /\ \E d \in Docs : Len(attempts[d]) = Len(FORMATS)
    /\ \E i \in 1..Len(ctx_attempts) : Len(ctx_attempts[i]) = Len(CONTEXT_FORMATS) + 1

\* The documents retrieve_ontologies has tried to load.
Attempted == {d \in Docs : attempts[d] # <<>>}

\* The IRIs some subject that g declares an Ontology imports.
ImportedByOntology(g) ==
    {x \in Docs : \E s \in {t[1] : t \in g} :
                      <<s, "type", "Ontology">> \in g /\ <<s, "imports", x>> \in g}

\* The IRIs g declares an Ontology and some subject imports.
ImportedOntology(g) ==
    {x \in Docs : <<x, "type", "Ontology">> \in g /\ \E t \in g : t[2] = "imports" /\ t[3] = x}

SubjectStep(S) ==
    S \cup ImportedByOntology(in_graph)
      \cup UNION {ImportedByOntology(web.docs[d]) : d \in {x \in S : Loadable(x)}}

RECURSIVE SubjectReach(_)
SubjectReach(S) == IF SubjectStep(S) = S THEN S ELSE SubjectReach(SubjectStep(S))

ObjectStep(S) ==
    S \cup ImportedOntology(in_graph)
      \cup UNION {ImportedOntology(web.docs[d]) : d \in {x \in S : Loadable(x)}}

RECURSIVE ObjectReach(_)
ObjectReach(S) == IF ObjectStep(S) = S THEN S ELSE ObjectReach(ObjectStep(S))

\* C31 (as amended): the import resolver takes X as a document to load
\* exactly when some subject that the queried graph declares an Ontology
\* has an imports statement whose object is X: the documents a direct call
\* tries are always among those reached this way, and a call that returns
\* under a policy that does not raise has tried every one of them.
C31_ImportsOfDeclaredOntologies ==
    (rcp_pc = "idle" /\ ctx_pc = "idle") =>
        /\ Attempted \subseteq SubjectReach({})
        /\ (ont_pc = "returned" /\ error # "None") => Attempted = SubjectReach({})

\* C31 (as stated): X is taken as a document to load exactly when the
\* queried graph declares X an Ontology and some subject imports X.
C31_ImportedIriDeclared ==
    (rcp_pc = "idle" /\ ctx_pc = "idle") =>
        /\ Attempted \subseteq ObjectReach({})
        /\ (ont_pc = "returned" /\ error # "None") => Attempted = ObjectReach({})

\* A returned call on a graph where the two readings differ: an import by a
\* subject that is no ontology was left alone, and an import of an IRI the
\* graph does not declare an Ontology was tried.
C31_Witness ==
    /\ rcp_pc = "idle" /\ ctx_pc = "idle" /\ ont_pc = "returned" /\ error # "None"
    /\ "D1" \in ImportedOntology(in_graph) \ Attempted
    /\ "D3" \in Attempted \ ImportedOntology(in_graph)

\* The number of expansion queries the counters in q record.
RECURSIVE QuerySum(_, _)
QuerySum(q, S) ==
    IF S = {} THEN 0
    ELSE LET n == CHOOSE x \in S : TRUE IN q[n] + QuerySum(q, S \ {n})

\* C32: within one invocation of extract_property_paths no node is expanded
\* more than twice in a direction, and only a seed is expanded twice, so
\* the expansion queries of a direction are at most the distinct nodes
\* reachable from the seeds plus the seeds.
C32_AtMostTwoExpansions ==
    backend = "local" =>
        /\ \A n \in Terms :
              /\ qdown[n] <= 2 /\ qup[n] <= 2
              /\ qdown[n] = 2 => n \in seeds
              /\ qup[n] = 2 => n \in seeds
        /\ QuerySum(qdown, Terms) <= Cardinality(ReachDown(seeds)) + Cardinality(seeds)
        /\ QuerySum(qup, Terms) <= Cardinality(ReachUp(seeds)) + Cardinality(seeds)

\* A finished deep crawl in which a seed was expanded twice downstream and
\* another node once.
C32_Witness ==
    /\ backend = "local" /\ pc = "done" /\ downstream /\ ~down_shallow
    /\ \E s \in seeds : qdown[s] = 2
    /\ \E n \in Nodes \ seeds : qdown[n] = 1

\* C33: under an error policy that is neither None nor 'ignore' a document
\* that fails every format is never taken as loaded: retrieve_ontologies
\* merges nothing for it, and extract_from_contexts neither crawls nor
\* writes a result for a context whose document did not load.
C33_FailedLoadNeverPasses ==
    /\ (error \notin {"None", "ignore"}) =>
          \A d \in Docs : ~Loadable(d) => merges[d] = 0
    /\ (ctx_error \notin {"None", "ignore"}) =>
          \A i \in 1..Len(files) :
              Unloadable(i) => i \notin ctx_crawled /\ files[i] = None

====
